---- MODULE Spec2Model ----
(***************************************************************************)
(* Model of the page scanner and record decoder of sqlite-repair-go:       *)
(*   readVarint, parseRecord, parseSerialType   (repair/utils.go)          *)
(*   Run, processPage, tryRecoverRow            (repair/repair.go)         *)
(*                                                                         *)
(* Bytes are naturals 0..255.  A uint64 / int64 is a bit vector: a         *)
(* function 1..64 -> {0,1} whose index 1 is bit 63 (the sign bit) and      *)
(* whose index 64 is bit 0, so that shifts and ors are the code's own.     *)
(***************************************************************************)
EXTENDS Integers, Sequences, FiniteSets, TLC

VARIABLES
    \* ---- decoder harness: one pure function applied to one input
    fn,          \* which function is applied
    arg,         \* its input
    res,         \* its result: [done |-> FALSE], or [done |-> TRUE, out |-> ...]
    \* ---- Run / processPage / tryRecoverRow
    pageSize,    \* cfg.PageSize
    pc,          \* position of the scan: "read", "page", "cells", "recover", "returned", "done", "panic", "idle"
    tables,      \* []TableInfo handed to processPage
    fileLeft,    \* bytes of the input file not yet read
    pageIndex,   \* Run's pageIndex
    pageData,    \* Run's page buffer
    numCells,    \* processPage's numCells
    i,           \* processPage's loop index
    rowID,       \* rowid of the row being dispatched (bit vector)
    values,      \* decoded values of the row being dispatched
    t,           \* tryRecoverRow's position in tables (0-based)
    sinkLog,     \* sink calls made in the cell iteration that is running or ran last
    sinkCount,   \* sink calls made for the current page
    dispatched   \* tryRecoverRow calls made for the current page

vars == <<fn, arg, res, pageSize, pc, tables, fileLeft, pageIndex, pageData, numCells, i,
          rowID, values, t, sinkLog, sinkCount, dispatched>>

decodeVars == <<fn, arg, res>>
runVars == <<pageSize, pc, tables, fileLeft, pageIndex, pageData, numCells, i,
             rowID, values, t, sinkLog, sinkCount, dispatched>>

(***************************************************************************)
(* Bounds of the model                                                     *)
(***************************************************************************)
\* longest run of continuation bytes in a generated varint buffer
MaxCont == 9
\* bytes of a page (cfg.PageSize)
PageSize == 512
\* full pages of the input file
MaxPages == 2
\* columns of a generated record
MaxCols == 2
\* page indices told apart; processPage treats all indices from 1 on alike
MaxIndex == 3

(***************************************************************************)
(* Bit vectors                                                             *)
(***************************************************************************)
Bit(b, k) == (b \div (2 ^ k)) % 2

\* k copies of b (SubSeq makes the function a tuple)
Rep(b, k) == SubSeq([j \in 1..k |-> b], 1, k)

Zero64 == Rep(0, 64)

\* the 8 bits of a byte, bit 7 first
ByteBits(b) == <<Bit(b, 7), Bit(b, 6), Bit(b, 5), Bit(b, 4), Bit(b, 3), Bit(b, 2), Bit(b, 1), Bit(b, 0)>>

\* uint64(b) / int64(b) of an unsigned byte
uint64(b) == Rep(0, 56) \o ByteBits(b)

\* int64(int8(b)): the byte read as a signed 8-bit quantity
int64_int8(b) == Rep(Bit(b, 7), 56) \o ByteBits(b)

\* v << k on 64 bits
Shl(v, k) == SubSeq(v, k + 1, 64) \o Rep(0, k)

\* a | b
Or(a, b) == SubSeq([j \in 1..64 |-> IF a[j] = 1 \/ b[j] = 1 THEN 1 ELSE 0], 1, 64)

\* binary.BigEndian.UintN(buf) widened to 64 bits, N = 8 * w
BigEndian(buf, w) ==
    SubSeq([j \in 1..64 |->
               IF j > 64 - 8 * w
               THEN Bit(buf[((j - (64 - 8 * w) - 1) \div 8) + 1], 7 - ((j - (64 - 8 * w) - 1) % 8))
               ELSE 0], 1, 64)

\* int64(intN(x)): x's low w bits sign-extended
SignExtend(v, w) == Rep(v[64 - w + 1], 64 - w) \o SubSeq(v, 64 - w + 1, 64)

\* the byte whose most significant bit is v[k]
ByteAt(v, k) ==
    128 * v[k] + 64 * v[k + 1] + 32 * v[k + 2] + 16 * v[k + 3]
    + 8 * v[k + 4] + 4 * v[k + 5] + 2 * v[k + 6] + v[k + 7]

\* integers of the code are exact below 2^24 and saturate at Big above it:
\* every length and offset they are compared with is below 2^17
Big == 65536 * 256

\* the value of a uint64 where it is below 2^24, and Big above it
UintSat(v) ==
    IF \E j \in 1..40 : v[j] = 1 THEN Big
    ELSE 65536 * ByteAt(v, 41) + 256 * ByteAt(v, 49) + ByteAt(v, 57)

\* int(v) of a uint64 on a 64-bit build: negative when bit 63 is set
IntSat(v) == IF v[1] = 1 THEN -1 ELSE UintSat(v)

(***************************************************************************)
(* readVarint                                                              *)
(***************************************************************************)
\* v = (v << 7) | uint64(b & 0x7f)
varintStep(v, b) == Or(Shl(v, 7), uint64(b % 128))

RECURSIVE readVarintLoop(_, _, _)
readVarintLoop(buf, k, v) ==
    IF k >= 9
    THEN IF Len(buf) >= 9 THEN [v |-> v, n |-> 9] ELSE [v |-> Zero64, n |-> 0]
    ELSE IF k >= Len(buf)
    THEN [v |-> Zero64, n |-> 0]
    ELSE LET b == buf[k + 1]
             v2 == varintStep(v, b)
         IN IF b < 128 THEN [v |-> v2, n |-> k + 1]
                       ELSE readVarintLoop(buf, k + 1, v2)

readVarint(buf) == readVarintLoop(buf, 0, Zero64)

(***************************************************************************)
(* parseSerialType                                                         *)
(***************************************************************************)
Null == [k |-> "null"]
IntVal(v) == [k |-> "int", v |-> v]
FloatVal(v) == [k |-> "float", v |-> v]
BlobVal(b) == [k |-> "blob", b |-> b]
TextVal(b) == [k |-> "text", b |-> b]

FieldErr == [err |-> TRUE, val |-> Null, n |-> 0]
Field(val, n) == [err |-> FALSE, val |-> val, n |-> n]

\* the 24-bit case with the top byte zero-extended instead of sign-extended
int24_zeroExtended(buf) ==
    Or(Or(Shl(uint64(buf[1]), 16), Shl(uint64(buf[2]), 8)), uint64(buf[3]))

\* case 3: int64(int8(buf[0]))<<16 | int64(buf[1])<<8 | int64(buf[2])
int24(buf) == Or(Or(Shl(int64_int8(buf[1]), 16), Shl(uint64(buf[2]), 8)), uint64(buf[3]))

\* case 5: int64(int8(buf[0]))<<40 | int64(buf[1])<<32 | int64(Uint32(buf[2:]))
int48(buf) ==
    Or(Or(Shl(int64_int8(buf[1]), 40), Shl(uint64(buf[2]), 32)),
       BigEndian(SubSeq(buf, 3, 6), 4))

\* the width the fixed-width cases 1..7 require
fixedWidth(c) == CASE c = 1 -> 1 [] c = 2 -> 2 [] c = 3 -> 3 [] c = 4 -> 4
                   [] c = 5 -> 6 [] c = 6 -> 8 [] c = 7 -> 8

parseSerialType(ty, buf) ==
    LET c == UintSat(ty)
    IN IF c = 0 THEN Field(Null, 0)
       ELSE IF c \in 1..7
       THEN IF Len(buf) < fixedWidth(c) THEN FieldErr
            ELSE CASE c = 1 -> Field(IntVal(int64_int8(buf[1])), 1)
                   [] c = 2 -> Field(IntVal(SignExtend(BigEndian(buf, 2), 16)), 2)
                   [] c = 3 -> Field(IntVal(int24(buf)), 3)
                   [] c = 4 -> Field(IntVal(SignExtend(BigEndian(buf, 4), 32)), 4)
                   [] c = 5 -> Field(IntVal(int48(buf)), 6)
                   [] c = 6 -> Field(IntVal(BigEndian(buf, 8)), 8)
                   [] c = 7 -> Field(FloatVal(BigEndian(buf, 8)), 8)
       ELSE IF c = 8 THEN Field(IntVal(uint64(0)), 0)
       ELSE IF c = 9 THEN Field(IntVal(uint64(1)), 0)
       ELSE IF c >= 12 /\ ty[64] = 0
       THEN LET n == (c - 12) \div 2
            IN IF Len(buf) < n THEN FieldErr ELSE Field(BlobVal(SubSeq(buf, 1, n)), n)
       ELSE IF c >= 13 /\ ty[64] = 1
       THEN LET n == (c - 13) \div 2
            IN IF Len(buf) < n THEN FieldErr ELSE Field(TextVal(SubSeq(buf, 1, n)), n)
       ELSE FieldErr

(***************************************************************************)
(* parseRecord                                                             *)
(***************************************************************************)
RecErr == [st |-> "err", values |-> <<>>]
RecPanic == [st |-> "panic", values |-> <<>>]
RecOk(vs) == [st |-> "ok", values |-> vs]

\* for idx < len(header) { t, n := readVarint(header[idx:]); if n == 0 { break } ... }
RECURSIVE readTypes(_, _, _)
readTypes(header, idx, types) ==
    IF idx >= Len(header) THEN types
    ELSE LET r == readVarint(SubSeq(header, idx + 1, Len(header)))
         IN IF r.n = 0 THEN types
            ELSE readTypes(header, idx + r.n, Append(types, r.v))

\* the body cursor left where it was
advance_stuck(bodyIdx, n) == bodyIdx

\* bodyIdx += n
advance(bodyIdx, n) == bodyIdx + n

\* for _, t := range types { val, n, err := parseSerialType(t, body[bodyIdx:]) ... }
RECURSIVE parseValues(_, _, _, _)
parseValues(types, body, bodyIdx, vals) ==
    IF types = <<>> THEN RecOk(vals)
    ELSE LET f == parseSerialType(Head(types), SubSeq(body, bodyIdx + 1, Len(body)))
         IN IF f.err THEN RecErr
            ELSE parseValues(Tail(types), body, advance(bodyIdx, f.n), Append(vals, f.val))

\* payload[n:headerLen] panics (slice bounds out of range) when headerLen < n
headerSliceOk(n, headerLen) == n <= headerLen

parseRecord(payload) ==
    LET h == readVarint(payload)
        headerLen == IntSat(h.v)
    IN IF h.n = 0 \/ headerLen > Len(payload) THEN RecErr
       ELSE IF ~headerSliceOk(h.n, headerLen) THEN RecPanic
       ELSE LET header == SubSeq(payload, h.n + 1, headerLen)
                body == SubSeq(payload, headerLen + 1, Len(payload))
            IN parseValues(readTypes(header, 0, <<>>), body, 0, <<>>)

(***************************************************************************)
(* Inputs of the decoder harness                                           *)
(***************************************************************************)
SeqsUpTo2(S) == {<<>>} \cup {<<a>> : a \in S} \cup {<<a, b>> : a \in S, b \in S}
SeqsUpTo3(S) == SeqsUpTo2(S) \cup {<<a, b, c>> : a \in S, b \in S, c \in S}

\* the two's-complement bit vector of a small integer
Int64Of(n) ==
    LET m == IF n >= 0 THEN n ELSE -n - 1
        raw == [j \in 1..64 |-> IF 64 - j <= 29 THEN (m \div (2 ^ (64 - j))) % 2 ELSE 0]
    IN SubSeq(IF n >= 0 THEN raw ELSE [j \in 1..64 |-> 1 - raw[j]], 1, 64)

\* buffers handed to readVarint: a run of continuation bytes and a short tail
VarintBufs ==
    {Rep(c, k) \o s : c \in {128, 129, 255}, k \in 0..MaxCont,
                      s \in SeqsUpTo2({0, 1, 127, 128, 255})}

\* serial-type codes: 0..19, and three codes near the top of the uint64 range
SerialCodes ==
    {Int64Of(c) : c \in 0..19} \cup {Int64Of(-1), Int64Of(-2), Shl(Int64Of(1), 63)}

SerialBufs ==
    SeqsUpTo3({0, 128, 255})
    \cup {<<h>> \o Rep(f, k) : h \in {0, 127, 128, 255}, f \in {0, 1, 255}, k \in 3..8}

\* the minimal varint of n < 2^14, and the nine-byte varint of n < 256
EncVarint(n) == IF n < 128 THEN <<n>> ELSE <<128 + (n \div 128), n % 128>>
EncVarint9(n) == Rep(128, 8) \o <<n>>

\* a column of a generated record: its serial type, how the type is encoded,
\* and the bytes of its value
Col(ty, enc, body) == [ty |-> ty, enc |-> enc, body |-> body]

ColSamples ==
    { Col(0, "min", <<>>),
      Col(1, "min", <<255>>),
      Col(2, "min", <<128, 0>>),
      Col(3, "min", <<255, 0, 0>>),
      Col(4, "min", <<255, 255, 255, 254>>),
      Col(5, "min", Rep(255, 6)),
      Col(6, "min", <<128, 0, 0, 0, 0, 0, 0, 1>>),
      Col(7, "min", <<63, 240, 0, 0, 0, 0, 0, 0>>),
      Col(8, "min", <<>>),
      Col(9, "min", <<>>),
      Col(10, "min", <<>>),
      Col(11, "min", <<>>),
      Col(12, "min", <<>>),
      Col(13, "min", <<>>),
      Col(14, "min", <<171>>),
      Col(17, "min", <<65, 66>>),
      Col(141, "min", Rep(97, 64)),
      Col(128, "nine", Rep(7, 58)) }

Defects == {"none", "trunc", "cutoff", "hdr0", "hdrbig", "empty"}

RecordDescs ==
    {[cols |-> cs, defect |-> d] :
        cs \in UNION {[1..k -> ColSamples] : k \in 0..MaxCols}, d \in Defects}

RECURSIVE Concat(_)
Concat(ss) == IF ss = <<>> THEN <<>> ELSE Head(ss) \o Concat(Tail(ss))

TypeBytes(c) == IF c.enc = "nine" THEN EncVarint9(c.ty) ELSE EncVarint(c.ty)
TypeRegion(r) == Concat([k \in 1..Len(r.cols) |-> TypeBytes(r.cols[k])])
BodyOf(r) == Concat([k \in 1..Len(r.cols) |-> r.cols[k].body])

\* the payload a record description stands for
Payload(r) ==
    LET ts == TypeRegion(r)
        body == BodyOf(r)
        hl == 1 + Len(ts)
    IN CASE r.defect = "none" -> <<hl>> \o ts \o body
         [] r.defect = "trunc" ->
                <<hl>> \o ts \o (IF body = <<>> THEN <<>> ELSE SubSeq(body, 1, Len(body) - 1))
         [] r.defect = "cutoff" -> <<hl + 1>> \o ts \o <<129>> \o body
         [] r.defect = "hdr0" -> <<0>> \o ts \o body
         [] r.defect = "hdrbig" ->
                (IF hl + Len(body) + 1 < 128 THEN <<hl + Len(body) + 1>>
                                             ELSE EncVarint(hl + Len(body) + 2)) \o ts \o body
         [] r.defect = "empty" -> <<>>

(***************************************************************************)
(* The decoder harness: Init draws a function and an input, the action     *)
(* applies the function                                                    *)
(***************************************************************************)
Pending == [done |-> FALSE]
Done(out) == [done |-> TRUE, out |-> out]

RunIdle ==
    /\ pageSize = 0
    /\ pc = "idle"
    /\ tables = <<>>
    /\ fileLeft = 0
    /\ pageIndex = 0
    /\ pageData = <<>>
    /\ numCells = 0
    /\ i = 0
    /\ rowID = Zero64
    /\ values = <<>>
    /\ t = 0
    /\ sinkLog = <<>>
    /\ sinkCount = 0
    /\ dispatched = 0

InitDecode ==
    /\ \/ fn = "readVarint" /\ arg \in VarintBufs
       \/ fn = "parseSerialType" /\ arg \in {[ty |-> c, buf |-> b] : c \in SerialCodes, b \in SerialBufs}
       \/ fn = "parseRecord" /\ arg \in RecordDescs
    /\ res = Pending
    /\ RunIdle

CallReadVarint ==
    /\ fn = "readVarint" /\ ~res.done
    /\ res' = Done(readVarint(arg))
    /\ UNCHANGED <<fn, arg>>
    /\ UNCHANGED runVars

CallParseSerialType ==
    /\ fn = "parseSerialType" /\ ~res.done
    /\ res' = Done(parseSerialType(arg.ty, arg.buf))
    /\ UNCHANGED <<fn, arg>>
    /\ UNCHANGED runVars

CallParseRecord ==
    /\ fn = "parseRecord" /\ ~res.done
    /\ res' = Done(parseRecord(Payload(arg)))
    /\ UNCHANGED <<fn, arg>>
    /\ UNCHANGED runVars

NextDecode == CallReadVarint \/ CallParseSerialType \/ CallParseRecord

SpecDecode == InitDecode /\ [][NextDecode]_vars

(***************************************************************************)
(* C2: readVarint against the SQLite varint reference decoder              *)
(***************************************************************************)
\* the reference decoder: 7 bits from each of the first 8 bytes, all 8 bits of
\* the ninth; width 0 when the buffer ends inside the varint
RECURSIVE RefVarintLoop(_, _, _)
RefVarintLoop(buf, k, v) ==
    IF k >= Len(buf) THEN [v |-> Zero64, n |-> 0]
    ELSE IF k = 8 THEN [v |-> Or(Shl(v, 8), uint64(buf[9])), n |-> 9]
    ELSE LET b == buf[k + 1]
             v2 == Or(Shl(v, 7), uint64(b % 128))
         IN IF b < 128 THEN [v |-> v2, n |-> k + 1] ELSE RefVarintLoop(buf, k + 1, v2)

RefVarint(buf) == RefVarintLoop(buf, 0, Zero64)

AllContinuation(buf) == \A k \in 1..Len(buf) : buf[k] >= 128

\* C2: readVarint returns the reference decoder's value and width on every
\* buffer; width 0 exactly for an empty buffer or fewer than 9 bytes that all
\* have the high bit set; [0x80 x 8, 0xFF] gives width 9 and value 0xFF.
C2_ReadVarintIsReference ==
    (fn = "readVarint" /\ res.done) =>
        /\ res.out.n = RefVarint(arg).n
        /\ (res.out.n > 0 => res.out.v = RefVarint(arg).v)
        /\ (res.out.n = 0 <=> (Len(arg) < 9 /\ AllContinuation(arg)))
        /\ (arg = Rep(128, 8) \o <<255>> => res.out = [v |-> uint64(255), n |-> 9])

(***************************************************************************)
(* C3: parseSerialType against the serial-type table                       *)
(***************************************************************************)
TableWidth(c) == CASE c = 1 -> 1 [] c = 2 -> 2 [] c = 3 -> 3
                   [] c = 4 -> 4 [] c = 5 -> 6 [] c = 6 -> 8

\* what the serial-type table asks of code c (the number of the bit vector ty)
\* on buf; code 7 is outside the claim
TableSays(ty, buf, out) ==
    LET c == UintSat(ty)
    IN CASE c \in 1..6 ->
                IF Len(buf) < TableWidth(c) THEN out.err
                ELSE out = Field(IntVal(SignExtend(BigEndian(buf, TableWidth(c)),
                                                   8 * TableWidth(c))), TableWidth(c))
         [] c = 0 -> out = Field(Null, 0)
         [] c = 8 -> out = Field(IntVal(Int64Of(0)), 0)
         [] c = 9 -> out = Field(IntVal(Int64Of(1)), 0)
         [] c \in {10, 11} -> out.err
         [] c >= 12 /\ ty[64] = 0 ->
                IF Len(buf) < (c - 12) \div 2 THEN out.err
                ELSE out = Field(BlobVal(SubSeq(buf, 1, (c - 12) \div 2)), (c - 12) \div 2)
         [] c >= 13 /\ ty[64] = 1 ->
                IF Len(buf) < (c - 13) \div 2 THEN out.err
                ELSE out = Field(TextVal(SubSeq(buf, 1, (c - 13) \div 2)), (c - 13) \div 2)
         [] OTHER -> TRUE

SerialExample(c, buf, n) ==
    arg = [ty |-> Int64Of(c), buf |-> buf] => res.out.val = IntVal(Int64Of(n))

\* C3: parseSerialType follows the serial-type table on every code and buffer:
\* sign-extended big-endian integers for codes 1..6, null/0/1 for 0/8/9, blobs
\* and texts of (c-12)/2 and (c-13)/2 bytes, an error on a short buffer and on
\* codes 10 and 11; with the named examples of 24-bit and 48-bit values.
C3_SerialTypeTable ==
    (fn = "parseSerialType" /\ res.done) =>
        /\ TableSays(arg.ty, arg.buf, res.out)
        /\ SerialExample(3, <<255, 0, 0>>, -65536)
        /\ SerialExample(3, <<128, 0, 0>>, -8388608)
        /\ SerialExample(3, <<255, 255, 255>>, -1)
        /\ SerialExample(5, Rep(255, 6), -1)

\* a negative 24-bit value has been decoded
C3_Witness ==
    /\ fn = "parseSerialType" /\ res.done
    /\ arg = [ty |-> Int64Of(3), buf |-> <<255, 0, 0>>]
    /\ res.out = Field(IntVal(Int64Of(-65536)), 3)

(***************************************************************************)
(* C4: parseRecord on well-formed records                                  *)
(***************************************************************************)
\* a record description is well-formed when nothing was damaged, no serial
\* type is a reserved one, and its varints are the ones an encoder writes (the
\* shortest: nine bytes only for values of 2^56 and more, which no header
\* length and no serial type of a record that fits in memory reaches)
WellFormed(r) ==
    /\ r.defect = "none"
    /\ \A k \in 1..Len(r.cols) : r.cols[k].ty \notin {10, 11} /\ r.cols[k].enc = "min"

RECURSIVE WidthsBefore(_, _)
WidthsBefore(cols, k) == IF k <= 1 THEN 0 ELSE WidthsBefore(cols, k - 1) + Len(cols[k - 1].body)

ExpectedValue(r, k) ==
    parseSerialType(Int64Of(r.cols[k].ty),
                    SubSeq(BodyOf(r), WidthsBefore(r.cols, k) + 1, Len(BodyOf(r)))).val

RecordDecoded(r, out) ==
    /\ out.st = "ok"
    /\ Len(out.values) = Len(r.cols)
    /\ \A k \in 1..Len(r.cols) : out.values[k] = ExpectedValue(r, k)

C4_WitnessZeroColumns ==
    fn = "parseRecord" /\ res.done /\ Payload(arg) = <<1>> /\ res.out = RecOk(<<>>)

(***************************************************************************)
(* Schemas: []TableInfo, each column with Name, Type and Pk                *)
(***************************************************************************)
Column(name, type, pk) == [Name |-> name, Type |-> type, Pk |-> pk]
TableInfo(name, cols) == [Name |-> name, Columns |-> cols]

\* declared types are strings of characters
TypeINTEGER == <<"I", "N", "T", "E", "G", "E", "R">>
TypeInteger == <<"I", "n", "t", "e", "g", "e", "r">>
Typeinteger == <<"i", "n", "t", "e", "g", "e", "r">>
TypeTEXT == <<"T", "E", "X", "T">>
TypeINT == <<"I", "N", "T">>

LowerChars == <<"a", "b", "c", "d", "e", "f", "g", "h", "i", "j", "k", "l", "m",
                "n", "o", "p", "q", "r", "s", "t", "u", "v", "w", "x", "y", "z">>
UpperChars == <<"A", "B", "C", "D", "E", "F", "G", "H", "I", "J", "K", "L", "M",
                "N", "O", "P", "Q", "R", "S", "T", "U", "V", "W", "X", "Y", "Z">>

\* strings.ToUpper
ToUpperChar(c) ==
    IF \E k \in 1..Len(LowerChars) : LowerChars[k] = c
    THEN UpperChars[CHOOSE k \in 1..Len(LowerChars) : LowerChars[k] = c]
    ELSE c
ToUpper(str) == SubSeq([k \in 1..Len(str) |-> ToUpperChar(str[k])], 1, Len(str))

tA == TableInfo("a", <<Column("id", TypeINTEGER, 1), Column("name", TypeTEXT, 0)>>)
tB == TableInfo("b", <<Column("k", TypeTEXT, 1), Column("n", TypeInteger, 2)>>)
tC == TableInfo("c", <<Column("v", Typeinteger, 1)>>)
tD == TableInfo("d", <<Column("v", TypeINTEGER, 0)>>)
tF == TableInfo("f", <<Column("v", TypeINT, 1)>>)
tZ == TableInfo("z", <<>>)

TableLists == {<<tA, tB, tC>>, <<tB, tD, tA>>, <<tC, tD, tZ>>, <<tF>>, <<>>}

(***************************************************************************)
(* Pages of the input file                                                 *)
(***************************************************************************)
Rec(cols, defect) == [cols |-> cols, defect |-> defect]

cNull == Col(0, "min", <<>>)
cInt8 == Col(1, "min", <<255>>)
cText == Col(17, "min", <<65, 66>>)

\* the records of the cells laid out in pages
PageRecords ==
    { Rec(<<>>, "none"), Rec(<<cNull>>, "none"), Rec(<<cNull, cText>>, "none"),
      Rec(<<cInt8, cNull>>, "none"), Rec(<<Col(10, "min", <<>>)>>, "none"),
      Rec(<<cNull, Col(11, "min", <<>>)>>, "none"),
      Rec(<<cNull, cText>>, "trunc"), Rec(<<cNull, cText>>, "cutoff"),
      Rec(<<cNull>>, "cutoff"), Rec(<<cNull>>, "hdr0"), Rec(<<cNull, cText>>, "hdrbig") }

\* a leaf-table cell: payload size varint, rowid varint, payload; delta is
\* added to the declared payload size
CellBytes(r, rid, delta) == EncVarint(Len(Payload(r)) + delta) \o rid \o Payload(r)

\* cells that declare one byte less, exactly, or one byte more than their payload
EdgeCells ==
    {CellBytes(Rec(<<cNull, cText>>, "none"), rid, d) :
        rid \in {<<5>>, <<129, 0>>}, d \in {-1, 0, 1}}

CellSamples ==
    {CellBytes(r, <<5>>, 0) : r \in PageRecords}
    \cup EdgeCells
    \cup {CellBytes(Rec(<<cNull>>, "none"), Rep(255, 9), 0), <<129>>, <<3, 129>>}

\* the cells put after another cell on a page
FollowingCells ==
    {CellBytes(Rec(<<cNull>>, "none"), <<5>>, 0),
     CellBytes(Rec(<<cInt8, cText>>, "none"), <<129, 0>>, 0),
     CellBytes(Rec(<<cNull, cText>>, "none"), <<5>>, 1)}

\* the offsets of cells laid back to back so that the last ends the page
CellPtrs(cells) ==
    CASE Len(cells) = 0 -> <<>>
      [] Len(cells) = 1 -> <<PageSize - Len(cells[1])>>
      [] Len(cells) = 2 -> <<PageSize - Len(cells[1]) - Len(cells[2]), PageSize - Len(cells[2])>>

\* a page: zeros, the B-tree page header at ho (type flag, low free-block byte
\* fb, cell count nc), the cell pointer array, and the cell content area at
\* the end of the page
BuildPage(ho, flag, fb, nc, ptrs, area) ==
    SubSeq([j \in 1..PageSize |->
        LET o == j - 1
        IN IF o >= PageSize - Len(area) THEN area[o - (PageSize - Len(area)) + 1]
           ELSE IF o = ho THEN flag
           ELSE IF o = ho + 2 THEN fb
           ELSE IF o = ho + 3 THEN nc \div 256
           ELSE IF o = ho + 4 THEN nc % 256
           ELSE IF o >= ho + 8 /\ o < ho + 8 + 2 * Len(ptrs)
           THEN IF (o - ho - 8) % 2 = 0 THEN ptrs[((o - ho - 8) \div 2) + 1] \div 256
                                        ELSE ptrs[((o - ho - 8) \div 2) + 1] % 256
           ELSE 0], 1, PageSize)

\* a page of three pointers: one equal to PageSize, one to a cell at the end
\* of the page that declares one byte more than is left, one to a cell before
\* it that declares exactly the bytes left up to the end of the page
BoundaryPage(ho) ==
    LET over == CellBytes(Rec(<<cNull, cText>>, "none"), <<5>>, 1)
        rec == Payload(Rec(<<cInt8, cText>>, "none"))
        fit == EncVarint(Len(rec) + Len(over)) \o <<7>> \o rec
    IN BuildPage(ho, 13, 0, 3,
                 <<PageSize, PageSize - Len(over), PageSize - Len(over) - Len(fit)>>,
                 fit \o over)

\* the pointers that fit between the page header and the end of the page
PointerCapacity(ho) == (PageSize - ho - 8) \div 2

\* a page that claims 65535 cells and whose pointer array runs to the end of
\* the page, every pointer pointing at one cell that lies in the page header
\* at ho + 5: payload size 1, rowid 0, payload [1], a record of no column
DensePage(ho) ==
    SubSeq([j \in 1..PageSize |->
        LET o == j - 1
        IN IF o < ho THEN 0
           ELSE IF o = ho THEN 13
           ELSE IF o \in {ho + 3, ho + 4} THEN 255
           ELSE IF o \in {ho + 5, ho + 7} THEN 1
           ELSE IF o >= ho + 8 /\ (o - ho - 8) % 2 = 1 THEN ho + 5
           ELSE 0], 1, PageSize)

\* a page with the header at 0 that claims 65535 cells and whose pointer array
\* runs to the end of the page: the first half of the pointers is 256, where
\* the pointer array itself reads as the cell [1, 0, 1] (a record of no
\* column); the next quarter and one more is 5, where the page reads
\* [3, 0, 2, 1, 0] (a record of one column, the integer 0); the others point
\* past the page
MixedDensePage ==
    LET zeroCols == PointerCapacity(0) \div 2
        oneCol == (PointerCapacity(0) \div 4) + 1
    IN SubSeq([j \in 1..PageSize |->
        LET o == j - 1
            k == (o - 8) \div 2
        IN IF o = 0 THEN 13
           ELSE IF o \in {3, 4} THEN 255
           ELSE IF o = 5 THEN 3
           ELSE IF o = 7 THEN 2
           ELSE IF o < 8 THEN 0
           ELSE IF k < zeroCols THEN (IF o % 2 = 0 THEN 1 ELSE 0)
           ELSE IF k < zeroCols + oneCol THEN (IF o % 2 = 0 THEN 0 ELSE 5)
           ELSE 255], 1, PageSize)

LeafPages(ho) ==
    {BuildPage(ho, 13, 0, nc, CellPtrs(<<c>>), c) : c \in CellSamples, nc \in {0, 1, 3}}
    \cup {BuildPage(ho, 13, 0, nc, CellPtrs(<<a, b>>), a \o b) :
              a \in CellSamples, b \in FollowingCells, nc \in {2}}
    \cup {BuildPage(ho, 13, 0, nc, <<>>, <<>>) : nc \in {0, 65535}}
    \cup {BuildPage(ho, 13, 0, 2, <<PageSize - Len(a), PageSize - Len(a) - Len(b)>>, b \o a) :
              a \in EdgeCells, b \in FollowingCells}
    \cup {BoundaryPage(ho)}
    \cup {BuildPage(ho, 13, 0, 2, <<p>> \o CellPtrs(<<c>>), c) :
              p \in {PageSize, PageSize + 1, 65535}, c \in FollowingCells}
    \cup {BuildPage(ho, 13, 1, 3, CellPtrs(<<c>>), c) : c \in FollowingCells}
    \cup {DensePage(ho)}

OtherPages(ho) ==
    {BuildPage(ho, f, 0, Len(cells), CellPtrs(cells), Concat(cells)) :
        f \in {0, 5, 10}, cells \in {<<>>} \cup {<<c>> : c \in FollowingCells}}
    \cup {Rep(0, PageSize), Rep(13, PageSize)}

\* the pages a read may return: pages laid out for a page header at offset 0
\* and pages laid out for a page header at offset 100
Pages == UNION {LeafPages(ho) \cup OtherPages(ho) : ho \in {0, 100}} \cup {MixedDensePage}

\* page sizes other than PageSize that a caller may configure
SmallPageSizes == {0, 1, 4, 5, 7, 8, 32, 101, 104, 105, 107, 124}

\* a page of n bytes: zeros, the type flag at ho, the cell count nc at ho + 3,
\* one cell pointer at ho + 8 and the cell it points at at the end of the
\* page, each as far as the page has room for it
PageOfSize(n, ho, flag, nc, cell) ==
    LET at == n - Len(cell)
    IN SubSeq([j \in 1..n |->
        LET o == j - 1
        IN IF at >= ho + 10 /\ o >= at THEN cell[o - at + 1]
           ELSE IF o = ho THEN flag
           ELSE IF o = ho + 3 THEN nc \div 256
           ELSE IF o = ho + 4 THEN nc % 256
           ELSE IF o = ho + 8 THEN at \div 256
           ELSE IF o = ho + 9 THEN at % 256
           ELSE 0], 1, n)

ShortPages(n) ==
    {PageOfSize(n, ho, flag, nc, cell) :
        ho \in {0, 100}, flag \in {0, 13}, nc \in {0, 1, 65535}, cell \in FollowingCells}

\* lengths of the input file for a page size of n bytes
FileSizesOf(n) == {k \in {0, n - 1, n + 1, MaxPages * n} : k >= 0}

FileSizes == {0, PageSize - 1, PageSize + 1, MaxPages * PageSize}

(***************************************************************************)
(* processPage and tryRecoverRow                                           *)
(***************************************************************************)
\* variant: the header offset of page 0 taken for every page
headerOffset_zero(pi) == 0
\* headerOffset := 0; if pageIndex == 0 { headerOffset = 100 }
headerOffset(pi) == IF pi = 0 THEN 100 ELSE 0

\* binary.BigEndian.Uint16(page[o : o+2]), o counted from 0
Uint16At(page, o) == 256 * page[o + 1] + page[o + 2]

\* i < int(numCells) && ptrOffset+2 <= len(pageData): the loop goes on
\* variant: a pointer may start at the end of the page
pointerInPage_loose(page, ptrOffset) == ptrOffset <= Len(page)
pointerInPage(page, ptrOffset) == ptrOffset + 2 <= Len(page)

\* int(payloadSize) > len(cell)-totalHeaderSize: the payload spills over
\* variant: a payload that ends with the page counts as spilling over
payloadOverflows_strict(payloadSize, cellLen, totalHeaderSize) ==
    payloadSize >= cellLen - totalHeaderSize
payloadOverflows(payloadSize, cellLen, totalHeaderSize) ==
    payloadSize > cellLen - totalHeaderSize

\* what one iteration of the cell loop comes to; end is the offset one past
\* the last byte of the page that the iteration reads
CellResult(kind, end, payload, rid, vals) ==
    [kind |-> kind, end |-> end, payload |-> payload, rowID |-> rid, values |-> vals]

\* one iteration of the cell loop, up to the call of tryRecoverRow; a slice
\* expression whose bounds lie outside the page panics
scanCell(page, ho, k) ==
    LET ptrOffset == ho + 8 + k * 2
    IN IF ~pointerInPage(page, ptrOffset)
       THEN CellResult("break", 0, <<>>, Zero64, <<>>)
       ELSE IF ptrOffset + 2 > Len(page)
       THEN CellResult("panic", ptrOffset + 2, <<>>, Zero64, <<>>)
       ELSE
       LET cellOffset == Uint16At(page, ptrOffset)
       IN IF cellOffset >= Len(page)
          THEN CellResult("badptr", ptrOffset + 2, <<>>, Zero64, <<>>)
          ELSE
          LET cell == SubSeq(page, cellOffset + 1, Len(page))
              ps == readVarint(cell)
          IN IF ps.n = 0
             THEN CellResult("badsize", Len(page), <<>>, Zero64, <<>>)
             ELSE
             LET rd == readVarint(SubSeq(cell, ps.n + 1, Len(cell)))
             IN IF rd.n = 0
                THEN CellResult("badrowid", Len(page), <<>>, Zero64, <<>>)
                ELSE
                LET totalHeaderSize == ps.n + rd.n
                    payloadSize == IntSat(ps.v)
                    hdrEnd == cellOffset + totalHeaderSize
                IN IF payloadOverflows(payloadSize, Len(cell), totalHeaderSize)
                   THEN CellResult("overflow", hdrEnd, <<>>, rd.v, <<>>)
                   ELSE IF payloadSize < 0 \/ hdrEnd + payloadSize > Len(page)
                   THEN CellResult("panic", hdrEnd + payloadSize, <<>>, rd.v, <<>>)
                   ELSE
                   LET payload == SubSeq(cell, totalHeaderSize + 1, totalHeaderSize + payloadSize)
                       rec == parseRecord(payload)
                       end == hdrEnd + payloadSize
                   IN CASE rec.st = "err" -> CellResult("recerr", end, payload, rd.v, <<>>)
                        [] rec.st = "panic" -> CellResult("panic", end, payload, rd.v, <<>>)
                        [] rec.st = "ok" -> CellResult("row", end, payload, rd.v, rec.values)

\* len(table.Columns) != len(values) { continue }
arityMatches(table, vals) == Len(table.Columns) = Len(vals)

\* col.Pk == 1 && strings.ToUpper(col.Type) == "INTEGER"
isRowidAlias(col) == col.Pk = 1 /\ ToUpper(col.Type) = TypeINTEGER

\* insertValues: a copy of values with the rowid in place of a null in every
\* INTEGER PRIMARY KEY column
insertValuesFor(table, vals, rid) ==
    SubSeq([k \in 1..Len(vals) |->
               IF k <= Len(table.Columns) /\ isRowidAlias(table.Columns[k]) /\ vals[k] = Null
               THEN IntVal(rid) ELSE vals[k]], 1, Len(vals))

\* values after insertValues was filled: insertValues is a copy, so values
\* is what it was
\* variant: insertValues shares its storage with values
valuesAfterCopy_aliased(vals, insertValues) == insertValues
valuesAfterCopy(vals, insertValues) == vals

\* err == nil { return }: the loop over the tables stops
\* variant: the loop over the tables goes on after a success
stopsAfter_never(ok) == FALSE
stopsAfter(ok) == ok

SinkCall(k, vals, ok) == [t |-> k, vals |-> vals, ok |-> ok]

(***************************************************************************)
(* Run: the scan loop                                                      *)
(***************************************************************************)
PageReset ==
    /\ pageData' = <<>>
    /\ numCells' = 0
    /\ i' = 0
    /\ rowID' = Zero64
    /\ values' = <<>>
    /\ t' = 0
    /\ sinkLog' = <<>>
    /\ sinkCount' = 0
    /\ dispatched' = 0

\* processPage returns nil
ReturnFromPage ==
    /\ pc' = "returned"
    /\ UNCHANGED <<tables, fileLeft, pageIndex, pageData, numCells, i, rowID, values, t,
                   sinkLog, sinkCount, dispatched>>

\* tryRecoverRow returns; processPage's loop goes on: i++
ReturnFromRecover ==
    /\ pc' = "cells"
    /\ i' = i + 1
    /\ rowID' = Zero64
    /\ values' = <<>>
    /\ t' = 0

InitRun ==
    /\ fn = "none" /\ arg = <<>> /\ res = Pending
    /\ pageSize = PageSize
    /\ pc = "read"
    /\ tables \in TableLists
    /\ fileLeft \in FileSizes
    /\ pageIndex = 0
    /\ pageData = <<>>
    /\ numCells = 0
    /\ i = 0
    /\ rowID = Zero64
    /\ values = <<>>
    /\ t = 0
    /\ sinkLog = <<>>
    /\ sinkCount = 0
    /\ dispatched = 0

\* f.Read(buffer) reports io.EOF when no byte of the file is left, but not to
\* a buffer of length 0, which gets 0, nil
readEOF(bufLen, left) == bufLen > 0 /\ left = 0

\* n of n, err := f.Read(buffer)
readCount(bufLen, left) == IF left < bufLen THEN left ELSE bufLen

\* the contents of the buffer after a full read
PagesOfSize(n) == IF n = PageSize THEN Pages ELSE ShortPages(n)

\* n, err := f.Read(buffer): io.EOF or a short page ends the loop
ReadPage ==
    /\ pc = "read"
    /\ IF readEOF(pageSize, fileLeft) \/ readCount(pageSize, fileLeft) # pageSize
       THEN /\ pc' = "done"
            /\ UNCHANGED <<tables, fileLeft, pageIndex, pageData, numCells, i, rowID,
                           values, t, sinkLog, sinkCount, dispatched>>
       ELSE /\ pc' = "page"
            /\ fileLeft' = fileLeft - readCount(pageSize, fileLeft)
            /\ pageData' \in PagesOfSize(pageSize)
            /\ UNCHANGED <<tables, pageIndex, numCells, i, rowID, values, t, sinkLog,
                           sinkCount, dispatched>>
    /\ UNCHANGED <<decodeVars, pageSize>>

\* processPage up to the cell loop
ProcessPageHeader ==
    /\ pc = "page"
    /\ LET ho == headerOffset(pageIndex)
       IN IF ho >= Len(pageData) THEN ReturnFromPage
          ELSE IF pageData[ho + 1] # 13 THEN ReturnFromPage
          ELSE IF ho + 5 > Len(pageData)
          THEN /\ pc' = "panic"
               /\ UNCHANGED <<tables, fileLeft, pageIndex, pageData, numCells, i, rowID,
                              values, t, sinkLog, sinkCount, dispatched>>
          ELSE /\ pc' = "cells"
               /\ numCells' = Uint16At(pageData, ho + 3)
               /\ i' = 0
               /\ UNCHANGED <<tables, fileLeft, pageIndex, pageData, rowID, values, t,
                              sinkLog, sinkCount, dispatched>>
    /\ UNCHANGED <<decodeVars, pageSize>>

\* one iteration of processPage's cell loop, up to the call of tryRecoverRow
CellStep ==
    /\ pc = "cells"
    /\ IF i >= numCells THEN ReturnFromPage
       ELSE LET c == scanCell(pageData, headerOffset(pageIndex), i)
            IN CASE c.kind = "break" -> ReturnFromPage
                 [] c.kind = "row" ->
                        /\ pc' = "recover"
                        /\ rowID' = c.rowID
                        /\ values' = c.values
                        /\ t' = 0
                        /\ sinkLog' = <<>>
                        /\ dispatched' = dispatched + 1
                        /\ UNCHANGED <<tables, fileLeft, pageIndex, pageData, numCells, i,
                                       sinkCount>>
                 [] c.kind = "panic" ->
                        /\ pc' = "panic"
                        /\ UNCHANGED <<tables, fileLeft, pageIndex, pageData, numCells, i,
                                       rowID, values, t, sinkLog, sinkCount, dispatched>>
                 [] OTHER ->
                        /\ i' = i + 1
                        /\ sinkLog' = <<>>
                        /\ UNCHANGED <<pc, tables, fileLeft, pageIndex, pageData, numCells,
                                       rowID, values, t, sinkCount, dispatched>>
    /\ UNCHANGED <<decodeVars, pageSize>>

\* one iteration of tryRecoverRow's loop over the tables; the sink (outDB.Exec)
\* answers with success or with an error
TryTable ==
    /\ pc = "recover"
    /\ IF t >= Len(tables)
       THEN /\ ReturnFromRecover
            /\ UNCHANGED <<tables, fileLeft, pageIndex, pageData, numCells, sinkLog,
                           sinkCount, dispatched>>
       ELSE IF ~arityMatches(tables[t + 1], values)
       THEN /\ t' = t + 1
            /\ UNCHANGED <<pc, tables, fileLeft, pageIndex, pageData, numCells, i, rowID,
                           values, sinkLog, sinkCount, dispatched>>
       ELSE \E ok \in BOOLEAN :
            LET insertValues == insertValuesFor(tables[t + 1], values, rowID)
            IN /\ sinkLog' = Append(sinkLog, SinkCall(t, insertValues, ok))
               /\ sinkCount' = sinkCount + 1
               /\ IF stopsAfter(ok)
                  THEN ReturnFromRecover
                  ELSE /\ t' = t + 1
                       /\ values' = valuesAfterCopy(values, insertValues)
                       /\ UNCHANGED <<pc, i, rowID>>
               /\ UNCHANGED <<tables, fileLeft, pageIndex, pageData, numCells, dispatched>>
    /\ UNCHANGED <<decodeVars, pageSize>>

\* pageIndex++, counted up to MaxIndex
nextIndex(k) == IF k < MaxIndex THEN k + 1 ELSE k

\* err = processPage(...) is nil; pageIndex++ and the loop reads again
PageDone ==
    /\ pc = "returned"
    /\ pc' = "read"
    /\ pageIndex' = nextIndex(pageIndex)
    /\ PageReset
    /\ UNCHANGED <<tables, fileLeft>>
    /\ UNCHANGED <<decodeVars, pageSize>>

Next == ReadPage \/ ProcessPageHeader \/ CellStep \/ TryTable \/ PageDone

Spec == InitRun /\ [][Next]_vars

\* Run called with another page size
InitCfg ==
    /\ fn = "none" /\ arg = <<>> /\ res = Pending
    /\ pageSize \in SmallPageSizes
    /\ pc = "read"
    /\ tables \in TableLists
    /\ fileLeft \in FileSizesOf(pageSize)
    /\ pageIndex = 0
    /\ pageData = <<>>
    /\ numCells = 0
    /\ i = 0
    /\ rowID = Zero64
    /\ values = <<>>
    /\ t = 0
    /\ sinkLog = <<>>
    /\ sinkCount = 0
    /\ dispatched = 0

SpecCfg == InitCfg /\ [][Next]_vars

\* what a step of processPage's cell loop does to the position of the scan: it
\* leaves the loop (return, tryRecoverRow, abort) or goes on to the next cell.
\* CellStep is enabled wherever pc = "cells", and each of its steps is one of these.
CellMove ==
    /\ pc = "cells"
    /\ \/ pc' \in {"returned", "recover", "panic"} /\ i' = i
       \/ pc' = "cells" /\ i' = i + 1

\* Run is one goroutine and nothing in it blocks for good: whichever statement
\* it has reached, it executes.  The fairness of the cell loop is stated on the
\* loop's position, which settles it without decoding the cell once more.
FairSpecCfg ==
    /\ InitCfg /\ [][Next]_vars
    /\ WF_vars(ReadPage) /\ WF_vars(ProcessPageHeader) /\ WF_<<pc, i>>(CellMove)
    /\ WF_vars(TryTable) /\ WF_vars(PageDone)

(***************************************************************************)
(* Claims on the scan                                                      *)
(***************************************************************************)
\* the page in the buffer is being processed or was just processed
PageInBuffer == pc \in {"page", "cells", "recover", "returned", "panic"}

\* the cell iteration that dispatched a row to tryRecoverRow: the running one
\* while tryRecoverRow runs, the one before otherwise
RowCell ==
    scanCell(pageData, headerOffset(pageIndex), IF pc = "recover" THEN i ELSE i - 1)

\* C1: whatever bytes a full-size page holds, processPage completes and the
\* scan goes on: no cell content aborts the run; a cell that cannot be
\* decoded, also one whose record header length is 0, is only skipped.
C1_NoCellAbortsRun == pc # "panic"

\* the bytes of a record header region end inside a varint
RECURSIVE EndsInsideVarint(_)
EndsInsideVarint(region) ==
    IF region = <<>> THEN FALSE
    ELSE LET r == readVarint(region)
         IN IF r.n = 0 THEN TRUE
            ELSE EndsInsideVarint(SubSeq(region, r.n + 1, Len(region)))

\* a record whose header region is in the payload and cuts a serial-type varint off
HeaderCutOff(payload) ==
    LET h == readVarint(payload)
        headerLen == IntSat(h.v)
    IN /\ h.n > 0
       /\ h.n <= headerLen
       /\ headerLen <= Len(payload)
       /\ EndsInsideVarint(SubSeq(payload, h.n + 1, headerLen))

\* C5: a cell whose record has a decode error produces no sink call; a record
\* whose header region ends inside a serial-type varint is such a record and
\* is never delivered as a shorter row.
C5_CutOffHeaderGetsNoSinkCall ==
    ~(pc = "recover" /\ sinkLog # <<>> /\ HeaderCutOff(RowCell.payload))

\* C6: tryRecoverRow offers the row only to schemas of the row's arity, in the
\* order of the list, each at most once; it stops at the first success; after
\* a failure it goes on to the next schema of that arity, skipping none; no
\* schema of that arity means no sink call.
C6_OfferedInOrderUntilSuccess ==
    (pc = "recover" \/ sinkLog # <<>>) =>
    LET arity == Len(RowCell.values)
    IN /\ \A k \in 1..Len(sinkLog) :
             /\ sinkLog[k].t < Len(tables)
             /\ Len(tables[sinkLog[k].t + 1].Columns) = arity
             /\ Len(sinkLog[k].vals) = arity
             /\ \A j \in 1..(k - 1) : sinkLog[j].t < sinkLog[k].t /\ ~sinkLog[j].ok
             /\ \A u \in 0..(sinkLog[k].t - 1) :
                   Len(tables[u + 1].Columns) = arity
                       => \E j \in 1..(k - 1) : sinkLog[j].t = u
       /\ pc = "recover" =>
             /\ \A k \in 1..Len(sinkLog) : ~sinkLog[k].ok /\ sinkLog[k].t < t
             /\ \A u \in 0..(t - 1) :
                   (u < Len(tables) /\ Len(tables[u + 1].Columns) = arity)
                       => \E j \in 1..Len(sinkLog) : sinkLog[j].t = u

\* a row was refused by one schema of its arity and accepted by the next one
\* of that arity, a schema of another arity lying between the two
C6_Witness ==
    /\ pc = "cells"
    /\ Len(sinkLog) = 2
    /\ ~sinkLog[1].ok /\ sinkLog[2].ok
    /\ sinkLog[2].t = sinkLog[1].t + 2

EqualsIgnoringCase(a, b) ==
    /\ Len(a) = Len(b)
    /\ \A k \in 1..Len(a) : ToUpperChar(a[k]) = ToUpperChar(b[k])

\* the vector the claim expects for a schema: the decoded values, a null in
\* an INTEGER primary-key column replaced by the rowid
ExpectedOffer(table, decoded, rid) ==
    SubSeq([k \in 1..Len(decoded) |->
               IF /\ table.Columns[k].Pk = 1
                  /\ EqualsIgnoringCase(table.Columns[k].Type, TypeINTEGER)
                  /\ decoded[k] = Null
               THEN IntVal(rid) ELSE decoded[k]], 1, Len(decoded))

\* C7: the vector offered for a schema is the decoded vector with the rowid
\* in place of a null in each INTEGER primary-key column and nothing else
\* changed; the decoded vector itself stays as decoded, also after a failure.
C7_OfferIsDecodedWithRowid ==
    (pc = "recover" \/ sinkLog # <<>>) =>
    LET row == RowCell
    IN /\ pc = "recover" => values = row.values /\ rowID = row.rowID
       /\ \A k \in 1..Len(sinkLog) :
             sinkLog[k].vals = ExpectedOffer(tables[sinkLog[k].t + 1], row.values, row.rowID)

\* the rowid was put in for the first schema, refused, and the second schema
\* was offered the null as decoded
C7_Witness ==
    /\ Len(sinkLog) = 2
    /\ RowCell.values[1] = Null
    /\ sinkLog[1].vals[1] = IntVal(RowCell.rowID)
    /\ sinkLog[2].vals[1] = Null
    /\ sinkLog[2].vals[2] = RowCell.values[2]

\* the claims' header offset, cell count and cell pointers, read from the page
ClaimedHeaderOffset == IF pageIndex = 0 THEN 100 ELSE 0
ClaimedCellCount == 256 * pageData[ClaimedHeaderOffset + 4] + pageData[ClaimedHeaderOffset + 5]
ClaimedPointer(k) ==
    256 * pageData[ClaimedHeaderOffset + 8 + 2 * k + 1]
        + pageData[ClaimedHeaderOffset + 8 + 2 * k + 2]

\* C8: a page whose byte at the header offset (100 on page 0, 0 elsewhere) is
\* not 0x0D gets no sink call and no error: processPage returns at once.
C8_NonLeafPageNoSinkCall ==
    (PageInBuffer /\ pageData[ClaimedHeaderOffset + 1] # 13)
        => /\ pc \in {"page", "returned"}
           /\ sinkCount = 0
           /\ dispatched = 0
           /\ sinkLog = <<>>

\* page 0 with 0x0D at byte 0, a cell count and a cell, but not 0x0D at byte
\* 100, has been processed
C8_Witness ==
    /\ pc = "returned"
    /\ pageIndex = 0
    /\ pageData[1] = 13
    /\ pageData[5] = 1
    /\ pageData[101] # 13
    /\ sinkCount = 0

\* floor((PageSize - 8) / 2)
ClaimedCapacity == (PageSize - 8) \div 2

\* C9, as stated: a page whose cell count exceeds (PageSize - 8)/2 gets at
\* most floor((PageSize - 8)/2) sink calls, whatever the sink answers and
\* however many schemas of one arity there are.
C9_SinkCallsWithinCapacity ==
    (PageInBuffer /\ ClaimedCellCount > ClaimedCapacity) => sinkCount <= ClaimedCapacity

\* C9, amended: a page whose cell count exceeds (PageSize - 8)/2 has at most
\* floor((PageSize - 8)/2) cells handed to tryRecoverRow, each offered at most
\* once to each schema, and no iteration reads past the end of the page.
C9_RowsWithinCapacity ==
    (PageInBuffer /\ ClaimedCellCount > ClaimedCapacity)
        => /\ dispatched <= ClaimedCapacity
           /\ sinkCount <= dispatched * Len(tables)
           /\ i <= ClaimedCapacity
           /\ (pc = "cells" /\ i < numCells)
                 => scanCell(pageData, headerOffset(pageIndex), i).end <= PageSize

\* every pointer the page has room for led to a row
C9_Witness ==
    /\ pc = "returned"
    /\ ClaimedCellCount > ClaimedCapacity
    /\ dispatched = ClaimedCapacity

\* the cell at pointer k, from the page bytes: its varints, the payload size
\* it declares and the bytes left in the page after the varints
ClaimedCell(k) ==
    LET off == ClaimedPointer(k)
        cell == SubSeq(pageData, off + 1, PageSize)
        a == readVarint(cell)
        b == readVarint(SubSeq(cell, a.n + 1, Len(cell)))
    IN [hasVarints |-> a.n > 0 /\ b.n > 0,
        declared |-> IntSat(a.v),
        left |-> PageSize - off - a.n - b.n,
        rowid |-> b.v]

\* the iteration skips the cell: no sink call, and the next cell is up
Skipped ==
    /\ pc' = "cells"
    /\ i' = i + 1
    /\ sinkCount' = sinkCount
    /\ dispatched' = dispatched
    /\ UNCHANGED <<pageData, numCells, pageIndex, tables>>

\* the cell is decoded from exactly these bytes
DecodedFrom(bytes, rid) ==
    LET r == parseRecord(bytes)
    IN /\ r.st = "ok" => pc' = "recover" /\ values' = r.values /\ rowID' = rid /\ i' = i
       /\ r.st = "err" => Skipped

C10Step ==
    (pc = "cells" /\ i < numCells /\ ClaimedHeaderOffset + 8 + 2 * i + 2 <= PageSize)
        => IF ClaimedPointer(i) >= PageSize THEN Skipped
           ELSE LET c == ClaimedCell(i)
                IN c.hasVarints =>
                      /\ c.declared > c.left => Skipped
                      /\ c.declared = c.left =>
                            DecodedFrom(SubSeq(pageData, PageSize - c.left + 1, PageSize),
                                        c.rowid)

\* C10: a cell that declares exactly the bytes left in the page after its two
\* varints is decoded from those bytes; a cell that declares more is skipped
\* without a sink call; a cell pointer of PageSize or more is skipped without
\* a sink call; after a skip the next cell is processed.
C10_PayloadAtPageEnd == [][C10Step]_vars

\* after a pointer equal to PageSize and a cell declaring one byte too many,
\* both skipped, a cell declaring exactly the bytes left is being recovered
C10_Witness ==
    /\ pc = "recover"
    /\ i = 2
    /\ ClaimedPointer(0) = PageSize
    /\ ClaimedPointer(1) < PageSize
    /\ ClaimedCell(1).hasVarints /\ ClaimedCell(1).declared = ClaimedCell(1).left + 1
    /\ ClaimedCell(2).hasVarints /\ ClaimedCell(2).declared = ClaimedCell(2).left
    /\ values = parseRecord(SubSeq(pageData, PageSize - ClaimedCell(2).left + 1, PageSize)).values
    /\ Len(values) = 2
    /\ dispatched = 1
    /\ sinkCount = 0

(***************************************************************************)
(* Claims on the page size                                                 *)
(***************************************************************************)
\* C11: whatever the length of the page buffer, processPage reads no byte
\* outside it; a page too short for the 8-byte page header at its header
\* offset ends without a sink call and without an abort, also when its byte
\* at the header offset is 0x0D.
C11_ShortPageIsSkipped ==
    (PageInBuffer /\ Len(pageData) < ClaimedHeaderOffset + 8)
        => /\ pc # "panic"
           /\ sinkCount = 0
           /\ dispatched = 0

\* C12: whatever the file and the page size, 0 for an unset one included,
\* Run's scan loop comes to an end (the aborts of C1 and C11 counted as ends).
C12_ScanLoopEnds == <>(pc \in {"done", "panic"})

====
